---------------------------- MODULE Spec2Model ----------------------------
(***************************************************************************)
(* Referee rating engine (src/algorithm/rating_algorithm .py).             *)
(*                                                                         *)
(* Numbers are fixed point, arithmetic is exact:                           *)
(*   feature values        thousandths        (1000 = 1.0)                 *)
(*   weights               hundredths         (20   = 0.20)                *)
(*   match difficulty      1e-5               (45000 = 0.45)               *)
(*   ratings, penalties    1e-4               (65000 = 6.5)                *)
(*   rounded ratings       hundredths         (650  = 6.50)                *)
(*   rounded difficulty    thousandths        (450  = 0.450)               *)
(* round(x, n) is Python's round half to even on the exact value.          *)
(* The dataframe's index is its row number (1 .. n), each label once.      *)
(***************************************************************************)
EXTENDS Integers, Sequences, FiniteSets, TLC

VARIABLES
    row,                \* SpecRow: the event handed to compute_final_rating
    consistency_in,     \* SpecRow: the consistency_bonus argument
    locals,             \* SpecRow: mds, mode, w, base_rating, esi of the call
    result,             \* SpecRow: the returned dict (<<>> before the call)
    df,                 \* the dataframe's input columns, one record per row
    pc,                 \* position inside rate_dataframe
    final_rating,       \* column df["final_rating"]
    pass1_rating,       \* the column as STEP 1 wrote it (base_results)
    consistency_bonus,  \* dict idx -> bonus of STEP 2
    ref_index,          \* referee -> ref_df.index, the order sort_values gave
    mds_col,            \* column df["mds"]
    mode_col,           \* column df["difficulty_mode"]
    form_5_games,       \* column df["form_5_games"]
    season_average      \* column df["season_average"]

rowVars == <<row, consistency_in, locals, result>>
dfVars == <<df, pc, final_rating, pass1_rating, consistency_bonus, ref_index,
            mds_col, mode_col, form_5_games, season_average>>
vars == <<row, consistency_in, locals, result, df, pc, final_rating,
          pass1_rating, consistency_bonus, ref_index, mds_col, mode_col,
          form_5_games, season_average>>

---------------------------------------------------------------------------
(* Bounds of the model *)

MaxErrors == 1
MaxRows == 5

---------------------------------------------------------------------------
(* Helpers *)

Max(a, b) == IF a >= b THEN a ELSE b
Min(a, b) == IF a <= b THEN a ELSE b

\* row.get(f, default): the value of the field, the default when it is absent
Get(r, f, default) == IF f \in DOMAIN r THEN r[f] ELSE default

\* round half to even of x / unit
RoundDiv(x, unit) ==
    LET q == x \div unit
        m == x % unit
    IN  IF 2 * m < unit THEN q
        ELSE IF 2 * m > unit THEN q + 1
        ELSE IF q % 2 = 0 THEN q ELSE q + 1

\* round(final_rating, 2): 1e-4 -> hundredths
Round2(x) == RoundDiv(x, 100)

\* round(mds, 3): 1e-5 -> thousandths
Round3(x) == RoundDiv(x, 100)

Features == {"crowd_pressure", "attendance_pct", "rivalry_intensity",
             "match_importance", "var_overturns", "foul_management",
             "decision_accuracy"}

---------------------------------------------------------------------------
(* 1. match difficulty score *)

MdsWeight(f) ==
    CASE f = "crowd_pressure" -> 20
      [] f = "attendance_pct" -> 15
      [] f = "rivalry_intensity" -> 20
      [] f = "match_importance" -> 25
      [] f = "var_overturns" -> 5
      [] f = "foul_management" -> 5
      [] f = "decision_accuracy" -> 10

MdsScore(r) ==
      Get(r, "crowd_pressure", 0) * MdsWeight("crowd_pressure")
    + Get(r, "attendance_pct", 0) * MdsWeight("attendance_pct")
    + Get(r, "rivalry_intensity", 0) * MdsWeight("rivalry_intensity")
    + Get(r, "match_importance", 0) * MdsWeight("match_importance")
    + Get(r, "var_overturns", 0) * MdsWeight("var_overturns")
    + Get(r, "foul_management", 0) * MdsWeight("foul_management")
    + Get(r, "decision_accuracy", 0) * MdsWeight("decision_accuracy")

MdsOne == 100000

compute_match_difficulty(r) == Max(0, Min(MdsOne, MdsScore(r)))

---------------------------------------------------------------------------
(* 2. difficulty category *)

EasyBelow == 45000
HardAbove == 55000

\* difficulty_category with <= written for <
difficulty_category_inclusive(mds) ==
    IF mds <= EasyBelow THEN "easy"
    ELSE IF mds > HardAbove THEN "hard"
    ELSE "medium"

difficulty_category(mds) ==
    IF mds < EasyBelow THEN "easy"
    ELSE IF mds > HardAbove THEN "hard"
    ELSE "medium"

---------------------------------------------------------------------------
(* 3. weight sets *)

WEIGHTS(mode) ==
    CASE mode = "easy" ->
           [decision_accuracy |-> 50, foul_management |-> 20,
            var_overturns |-> 5, crowd_pressure |-> 5,
            match_importance |-> 5, attendance_pct |-> 5,
            rivalry_intensity |-> 10]
      [] mode = "medium" ->
           [decision_accuracy |-> 35, foul_management |-> 25,
            var_overturns |-> 10, crowd_pressure |-> 10,
            match_importance |-> 10, attendance_pct |-> 5,
            rivalry_intensity |-> 5]
      [] mode = "hard" ->
           [decision_accuracy |-> 25, foul_management |-> 25,
            var_overturns |-> 15, crowd_pressure |-> 15,
            match_importance |-> 10, attendance_pct |-> 5,
            rivalry_intensity |-> 5]

---------------------------------------------------------------------------
(* 4. error severity index *)

MinorWeight == -500
ModerateWeight == -1500
MajorWeight == -4000

compute_error_severity_index(r) ==
      Get(r, "minor_errors", 0) * MinorWeight
    + Get(r, "moderate_errors", 0) * ModerateWeight
    + Get(r, "major_errors", 0) * MajorWeight

---------------------------------------------------------------------------
(* 5. final match rating *)

\* base_rating = sum(row.get(f, 0) * w[f] * 10 for f in w)
BaseRating(r, w) ==
      Get(r, "decision_accuracy", 0) * w["decision_accuracy"]
    + Get(r, "foul_management", 0) * w["foul_management"]
    + Get(r, "var_overturns", 0) * w["var_overturns"]
    + Get(r, "crowd_pressure", 0) * w["crowd_pressure"]
    + Get(r, "match_importance", 0) * w["match_importance"]
    + Get(r, "attendance_pct", 0) * w["attendance_pct"]
    + Get(r, "rivalry_intensity", 0) * w["rivalry_intensity"]

EasyFloor == 65000
RatingMin == 10000
RatingMax == 100000

\* FairnessFloor with min written for max
FairnessFloorMin(mode, x) == IF mode = "easy" THEN Min(x, EasyFloor) ELSE x

\* the fairness floor for easy matches
FairnessFloor(mode, x) == IF mode = "easy" THEN Max(x, EasyFloor) ELSE x

\* Bound without the upper bound
BoundBelowOnly(x) == Max(RatingMin, x)

\* bound between 1 and 10
Bound(x) == Max(RatingMin, Min(RatingMax, x))

\* Combine with the bonus added to the settled rating, after floor and bound
CombineBonusLast(mode, base_rating, esi_penalty, bonus) ==
    Bound(FairnessFloor(mode, base_rating + esi_penalty)) + bonus

\* the sum, the floor and the bound of compute_final_rating, before rounding
Combine(mode, base_rating, esi_penalty, bonus) ==
    Bound(FairnessFloor(mode, base_rating + esi_penalty + bonus))

\* the local variables of one call: mds, mode, w, base_rating
FinalRatingLocals(r, esi_penalty) ==
    LET mds == compute_match_difficulty(r)
        mode == difficulty_category(mds)
        w == WEIGHTS(mode)
    IN  [mds |-> mds, mode |-> mode, w |-> w,
         base_rating |-> BaseRating(r, w),
         esi_penalty |-> esi_penalty]

compute_final_rating(r, esi_penalty, bonus) ==
    LET l == FinalRatingLocals(r, esi_penalty)
    IN  [mds |-> Round3(l.mds),
         difficulty_mode |-> l.mode,
         final_rating |->
             Round2(Combine(l.mode, l.base_rating, esi_penalty, bonus))]

---------------------------------------------------------------------------
(* The consistency adjustments compute_consistency_bonus hands out *)

BonusHigh == 2000
BonusLow == 1000
BonusNone == 0
BonusPenalty == -1500

Bonuses == {BonusHigh, BonusLow, BonusNone, BonusPenalty}

---------------------------------------------------------------------------
(* SpecRow: one event through the body of the rating loop                  *)
(* (rate_dataframe lines 249-251), for every consistency adjustment.       *)

FeatureValues == {0, 333, 1000}
ErrorCounts == 0 .. MaxErrors

ErrorRows == [{"minor_errors", "moderate_errors", "major_errors"} -> ErrorCounts]

\* rows holding every field, and rows lacking exactly one feature
FeatureRows ==
    [Features -> FeatureValues]
    \cup UNION {[Features \ {f} -> {0, 1000}] : f \in Features}

EventRows == {fr @@ er : fr \in FeatureRows, er \in ErrorRows}

NoRow == <<>>

PipelineIdle ==
    /\ df = <<>>
    /\ pc = "idle"
    /\ final_rating = <<>>
    /\ pass1_rating = <<>>
    /\ consistency_bonus = <<>>
    /\ ref_index = <<>>
    /\ mds_col = <<>>
    /\ mode_col = <<>>
    /\ form_5_games = <<>>
    /\ season_average = <<>>

InitRow ==
    /\ row \in EventRows
    /\ consistency_in = 0
    /\ locals = <<>>
    /\ result = <<>>
    /\ PipelineIdle

RateRow ==
    /\ row # NoRow
    /\ result = <<>>
    /\ \E bonus \in Bonuses :
         LET esi == compute_error_severity_index(row)
         IN  /\ consistency_in' = bonus
             /\ locals' = FinalRatingLocals(row, esi)
             /\ result' = compute_final_rating(row, esi, bonus)
    /\ UNCHANGED <<row, dfVars>>

NextRow == RateRow

SpecRow == InitRow /\ [][NextRow]_vars

---------------------------------------------------------------------------
(* 6. consistency rating: volatility over the last 5 matches *)

Window == 5
StdTight == 15
StdSteady == 30
StdLoose == 50

\* df['referee'].unique()
Unique(d) == {d[i]["referee"] : i \in DOMAIN d}

\* the index of df[df['referee'] == referee]
RefRows(d, referee) == {i \in DOMAIN d : d[i]["referee"] = referee}

\* The orders .sort_values("match_id") may give the rows S: ascending in
\* match_id.  The default kind is quicksort, which is not stable, so rows
\* with equal match_id come out in any order.
RECURSIVE SortedOrders(_, _)
SortedOrders(d, S) ==
    IF S = {} THEN {<<>>}
    ELSE LET first == {i \in S : \A j \in S : d[i]["match_id"] <= d[j]["match_id"]}
         IN  UNION {{<<i>> \o o : o \in SortedOrders(d, S \ {i})} : i \in first}

sort_values(d, referee) == SortedOrders(d, RefRows(d, referee))

\* every way the sorts of the loop over the referees R can come out
RECURSIVE SortOutcomes(_, _)
SortOutcomes(d, R) ==
    IF R = {} THEN {<<>>}
    ELSE LET r == CHOOSE x \in R : TRUE
         IN  {(r :> o) @@ f : o \in sort_values(d, r), f \in SortOutcomes(d, R \ {r})}

\* enumerate(ref_df): the position (from 0) of row i in its referee's order
PosOf(order, i) == (CHOOSE k \in 1 .. Len(order) : order[k] = i) - 1

RECURSIVE WindowSum(_, _, _, _)
WindowSum(col, order, k, n) ==
    IF n = 0 THEN 0 ELSE col[order[k + 1]] + WindowSum(col, order, k - 1, n - 1)

RECURSIVE WindowSumSq(_, _, _, _)
WindowSumSq(col, order, k, n) ==
    IF n = 0 THEN 0
    ELSE col[order[k + 1]] * col[order[k + 1]] + WindowSumSq(col, order, k - 1, n - 1)

\* rolling(window=5).std() at position k, as Window * (Window - 1) times the
\* sample variance (ddof = 1) of the ratings at positions k-4 .. k
RollingVar(col, order, k) ==
    Window * WindowSumSq(col, order, k, Window)
    - WindowSum(col, order, k, Window) * WindowSum(col, order, k, Window)

\* StdBelow with <= written for <
StdAtMost(v, limit) == v <= Window * (Window - 1) * limit * limit

\* std_val < limit, limit in hundredths
StdBelow(v, limit) == v < Window * (Window - 1) * limit * limit

BonusOfStd(v) ==
    IF StdBelow(v, StdTight) THEN BonusHigh
    ELSE IF StdBelow(v, StdSteady) THEN BonusLow
    ELSE IF StdBelow(v, StdLoose) THEN BonusNone
    ELSE BonusPenalty

BonusAt(col, order, k) ==
    IF k < Window - 1 THEN 0 ELSE BonusOfStd(RollingVar(col, order, k))

compute_consistency_bonus(d, col, orders) ==
    [i \in DOMAIN d |->
        LET order == orders[d[i]["referee"]]
        IN  BonusAt(col, order, PosOf(order, i))]

---------------------------------------------------------------------------
(* 7. 5-game form and season average *)

None == <<>>
Some(v) == <<v>>

\* FormAt cutting the mean to two decimals instead of rounding it
FormAtTruncated(col, order, k) ==
    IF k < Window - 1 THEN None
    ELSE Some(WindowSum(col, order, k, Window) \div Window)

\* rolling(window=5).mean(), rounded to 2 decimals; None where it is NaN
FormAt(col, order, k) ==
    IF k < Window - 1 THEN None
    ELSE Some(RoundDiv(WindowSum(col, order, k, Window), Window))

RECURSIVE SeqSum(_, _)
SeqSum(col, order) ==
    IF order = <<>> THEN 0 ELSE col[Head(order)] + SeqSum(col, Tail(order))

compute_form(d, col, orders) ==
    [i \in DOMAIN d |->
        LET order == orders[d[i]["referee"]]
        IN  FormAt(col, order, PosOf(order, i))]

\* round(ref_matches["final_rating"].mean(), 2)
compute_season(d, col, orders) ==
    [r \in Unique(d) |-> RoundDiv(SeqSum(col, orders[r]), Len(orders[r]))]

---------------------------------------------------------------------------
(* 8. rate_dataframe *)

MaxMatchId == 2

Referees == {"A", "B"}

Event(features, minor, moderate, major) ==
    features @@ [minor_errors |-> minor, moderate_errors |-> moderate,
                 major_errors |-> major]

\* a demanding match refereed well: difficulty 0.9145, hard, base rating 7.15
HardMatch ==
    [crowd_pressure |-> 1000, attendance_pct |-> 1000,
     rivalry_intensity |-> 1000, match_importance |-> 1000,
     var_overturns |-> 1000, foul_management |-> 430,
     decision_accuracy |-> 430]

\* a quiet match with every signal 0: difficulty 0, easy, base rating 0
QuietMatch == [f \in Features |-> 0]

\* a match with every signal 1 but decision accuracy 0.971: difficulty
\* 0.9971, hard, base rating 9.9275
TopMatch == [f \in Features |-> IF f = "decision_accuracy" THEN 971 ELSE 1000]

Profiles ==
    <<Event(HardMatch, 0, 0, 0),      \* 7.15
      Event(HardMatch, 0, 1, 0),      \* 7.00
      Event(HardMatch, 0, 2, 0),      \* 6.85
      Event(QuietMatch, 0, 0, 0),     \* 6.50, by the easy floor
      Event(TopMatch, 0, 0, 0)>>      \* 9.93

Identity(referee, match_id) == [referee |-> referee, match_id |-> match_id]

\* one referee's season: n events, profile p[i] each, in match order or in
\* reverse
SeasonFrame(n, p, asc) ==
    [i \in 1 .. n |->
        Profiles[p[i]] @@ Identity("A", IF asc THEN i ELSE n + 1 - i)]

\* a frame whose rows are spread over referees r[i] and match ids m[i]
MixedFrame(n, r, m) ==
    [i \in 1 .. n |->
        Profiles[((i - 1) % Len(Profiles)) + 1] @@ Identity(r[i], m[i])]

RowIdle ==
    /\ row = NoRow
    /\ consistency_in = 0
    /\ locals = <<>>
    /\ result = <<>>

Init ==
    /\ \E n \in 1 .. MaxRows :
         \/ \E p \in [1 .. n -> DOMAIN Profiles], asc \in BOOLEAN :
              df = SeasonFrame(n, p, asc)
         \/ \E r \in [1 .. n -> Referees], m \in [1 .. n -> 1 .. MaxMatchId] :
              \* the referees' names are interchangeable: the first row is A's
              /\ r[1] = "A"
              /\ df = MixedFrame(n, r, m)
    /\ pc = "step1"
    /\ final_rating = <<>>
    /\ pass1_rating = <<>>
    /\ consistency_bonus = <<>>
    /\ ref_index = <<>>
    /\ mds_col = <<>>
    /\ mode_col = <<>>
    /\ form_5_games = <<>>
    /\ season_average = <<>>
    /\ RowIdle

\* STEP 1: base ratings, without consistency bonus
Step1 ==
    /\ pc = "step1"
    /\ LET base_results ==
               [i \in DOMAIN df |->
                   compute_final_rating(
                       df[i], compute_error_severity_index(df[i]), 0).final_rating]
       IN  /\ pass1_rating' = base_results
           /\ final_rating' = base_results
    /\ pc' = "step2"
    /\ UNCHANGED <<df, consistency_bonus, ref_index, mds_col, mode_col,
                   form_5_games, season_average, rowVars>>

\* STEP 2: consistency bonus
Step2 ==
    /\ pc = "step2"
    /\ \E orders \in SortOutcomes(df, Unique(df)) :
         /\ ref_index' = orders
         /\ consistency_bonus' = compute_consistency_bonus(df, final_rating, orders)
    /\ pc' = "step3"
    /\ UNCHANGED <<df, final_rating, pass1_rating, mds_col, mode_col,
                   form_5_games, season_average, rowVars>>

\* the result of compute_final_rating for row i in STEP 3
FinalResult(i) ==
    compute_final_rating(
        df[i], compute_error_severity_index(df[i]), consistency_bonus[i])

\* STEP 3: recalculate the final results with consistency
Step3 ==
    /\ pc = "step3"
    /\ mds_col' = [i \in DOMAIN df |-> FinalResult(i).mds]
    /\ mode_col' = [i \in DOMAIN df |-> FinalResult(i).difficulty_mode]
    /\ final_rating' = [i \in DOMAIN df |-> FinalResult(i).final_rating]
    /\ pc' = "step4"
    /\ UNCHANGED <<df, pass1_rating, consistency_bonus, ref_index,
                   form_5_games, season_average, rowVars>>

\* STEP 4: 5-game form and season average.  sort_values sorts the same
\* match_id column as in STEP 2 with the same algorithm, so it gives the
\* same order again.
Step4 ==
    /\ pc = "step4"
    /\ form_5_games' = compute_form(df, final_rating, ref_index)
    /\ season_average' =
           [i \in DOMAIN df |->
               compute_season(df, final_rating, ref_index)[df[i]["referee"]]]
    /\ pc' = "done"
    /\ UNCHANGED <<df, final_rating, pass1_rating, consistency_bonus, ref_index,
                   mds_col, mode_col, rowVars>>

Next == Step1 \/ Step2 \/ Step3 \/ Step4

Spec == Init /\ [][Next]_vars

SpecAll == (Init \/ InitRow) /\ [][Next \/ NextRow]_vars

---------------------------------------------------------------------------
(* Claims about one event (SpecRow) *)

Rated == result # <<>>

\* base rating + error penalty + consistency adjustment of the rated event
RawSum == locals.base_rating + locals.esi_penalty + consistency_in

\* C1: for every row, error penalty and consistency adjustment the
\* final_rating compute_final_rating returns lies in [1,10], so every
\* final_rating rate_dataframe writes (after STEP 1 and after STEP 3) lies
\* in [1,10]; combining a returned rating again with penalty 0 and bonus 0
\* gives the same rating.
C1_FinalRatingInRange ==
    /\ Rated =>
         /\ result.final_rating >= 100
         /\ result.final_rating <= 1000
         /\ Round2(Combine(result.difficulty_mode,
                           result.final_rating * 100, 0, 0))
              = result.final_rating
    /\ \A i \in DOMAIN final_rating :
         final_rating[i] >= 100 /\ final_rating[i] <= 1000
    /\ \A i \in DOMAIN pass1_rating :
         pass1_rating[i] >= 100 /\ pass1_rating[i] <= 1000

\* C1 witness: a sum above 10 was brought back to 10.00
C1_Witness == Rated /\ RawSum > 100000 /\ result.final_rating = 1000

\* C2 as stated: in the easy regime, base + penalty below 6.5 gives exactly
\* 6.5; the floor acts as if applied after the [1,10] clamp (the result
\* equals max(clamp(base + penalty, 1, 10), 6.5)); an event with every
\* signal 0 and no error has difficulty 0, mode easy, base rating 0,
\* penalty 0, final rating 6.5.
C2_EasyFloorExact ==
    (Rated /\ consistency_in = 0) =>
      /\ locals.mode = "easy" =>
           /\ result.final_rating * 100 =
                Max(Max(10000, Min(100000, RawSum)), 65000)
           /\ RawSum < 65000 => result.final_rating = 650
      /\ ( /\ \A f \in Features : Get(row, f, 0) = 0
           /\ locals.esi_penalty = 0 ) =>
           /\ locals.mds = 0
           /\ result.difficulty_mode = "easy"
           /\ locals.base_rating = 0
           /\ result.final_rating = 650

\* C2 amended: ... the result equals max(clamp(sum, 1, 10), 6.5) rounded to
\* two decimals, sum being base + penalty (+ the consistency adjustment,
\* which is 0 in pass 1); the rest as stated.
C2_EasyFloor ==
    Rated =>
      /\ locals.mode = "easy" =>
           LET floored == Max(Max(10000, Min(100000, RawSum)), 65000)
           IN  /\ result.final_rating * 100 - floored <= 50
               /\ floored - result.final_rating * 100 <= 50
               /\ RawSum < 65000 => result.final_rating = 650
      /\ ( /\ \A f \in Features : Get(row, f, 0) = 0
           /\ row["minor_errors"] = 0
           /\ row["moderate_errors"] = 0
           /\ row["major_errors"] = 0
           /\ consistency_in = 0 ) =>
           /\ locals.mds = 0
           /\ result.mds = 0
           /\ result.difficulty_mode = "easy"
           /\ locals.base_rating = 0
           /\ locals.esi_penalty = 0
           /\ result.final_rating = 650

\* C2 witness: an easy event with errors, sum below 6.5, rated 6.50 in pass 1
C2_Witness ==
    /\ Rated
    /\ locals.mode = "easy"
    /\ consistency_in = 0
    /\ locals.esi_penalty < 0
    /\ locals.base_rating > 0
    /\ RawSum < 65000
    /\ result.final_rating = 650

\* C3: the regime is easy exactly when the difficulty score is below 0.45,
\* hard exactly when it is above 0.55 and medium otherwise (0.45 and 0.55
\* are medium); the weights of the base rating are that regime's table.
C3_ModeBands ==
    Rated =>
      /\ (result.difficulty_mode = "easy") <=> (locals.mds < 45000)
      /\ (result.difficulty_mode = "hard") <=> (locals.mds > 55000)
      /\ (result.difficulty_mode = "medium") <=>
             (locals.mds >= 45000 /\ locals.mds <= 55000)
      /\ locals.w = WEIGHTS(result.difficulty_mode)
      /\ locals.base_rating = BaseRating(row, WEIGHTS(result.difficulty_mode))

\* C3 witness: a difficulty score of exactly 0.45 rated as medium
C3_Witness == Rated /\ locals.mds = 45000 /\ result.difficulty_mode = "medium"

\* C4: the error penalty that enters the final rating is
\* (minor*(-0.05) + moderate*(-0.15) + major*(-0.40)) * (0.5 + difficulty).
C4_PenaltyScaledByDifficulty ==
    Rated =>
      locals.esi_penalty * 100000 =
          ( row["minor_errors"] * (-500)
          + row["moderate_errors"] * (-1500)
          + row["major_errors"] * (-4000) ) * (50000 + locals.mds)

\* C7: a record lacking one of the seven contextual/performance fields is
\* never given a rating (the call ends in an error instead).
C7_MissingFieldNotRated ==
    ~(Features \subseteq DOMAIN row) => ~Rated

\* C9: the weights applied are the regime's base weights scaled by the
\* behavioral modifiers (foul_management by FvX, crowd_pressure by
\* 1 + CPR*0.2, var_overturns by 1 + VARF*0.3, attendance_pct by
\* 1 + HBI*0.2, decision_accuracy by 1 - TTD*0.1, the others by 1) and
\* divided by their sum.  Indicators in thousandths; an absent indicator
\* takes its default (FvX 1.0, VARF 0.10, HBI 0.10, CPR 0.20, TTD 0.40).
C9_WeightsBehaviorallyAdjusted ==
    Rated =>
      LET base == WEIGHTS(result.difficulty_mode)
          \* modifier of feature f, in 1e-4
          modifier(f) ==
              CASE f = "foul_management" -> Get(row, "FvX", 1000) * 10
                [] f = "crowd_pressure" -> 10000 + Get(row, "CPR", 200) * 2
                [] f = "var_overturns" -> 10000 + Get(row, "VARF", 100) * 3
                [] f = "attendance_pct" -> 10000 + Get(row, "HBI", 100) * 2
                [] f = "decision_accuracy" -> 10000 - Get(row, "TTD", 400)
                [] OTHER -> 10000
          scaled(f) == base[f] * modifier(f)
          total ==
                scaled("decision_accuracy") + scaled("foul_management")
              + scaled("var_overturns") + scaled("crowd_pressure")
              + scaled("match_importance") + scaled("attendance_pct")
              + scaled("rivalry_intensity")
      IN  \A f \in Features : locals.w[f] * total = scaled(f) * 100

---------------------------------------------------------------------------
(* Claims about rate_dataframe (Spec) *)

\* the rows of referee r in the order STEP 2 took them
OrderOf(r) == ref_index[r]

\* ref_index[r] holds r's rows, each once, ascending in match_id
OrderedByMatchId(r) ==
    LET o == OrderOf(r)
    IN  /\ Len(o) = Cardinality(RefRows(df, r))
        /\ {o[k] : k \in 1 .. Len(o)} = RefRows(df, r)
        /\ \A k \in 1 .. Len(o) - 1 :
             df[o[k]]["match_id"] <= df[o[k + 1]]["match_id"]

\* the sum of col over the five rows ending at the k-th of order o
Sum5(col, o, k) ==
    col[o[k - 4]] + col[o[k - 3]] + col[o[k - 2]] + col[o[k - 1]] + col[o[k]]

\* 20 times the sample variance of col over the same five rows
Var20(col, o, k) ==
    5 * ( col[o[k - 4]] * col[o[k - 4]] + col[o[k - 3]] * col[o[k - 3]]
        + col[o[k - 2]] * col[o[k - 2]] + col[o[k - 1]] * col[o[k - 1]]
        + col[o[k]] * col[o[k]] )
    - Sum5(col, o, k) * Sum5(col, o, k)

\* C5: per referee, in ascending match_id order, the adjustment of the
\* first four events is 0 and from the fifth on it follows the sample
\* standard deviation s of the pass-1 ratings of the event and the four
\* before it: +0.20 if s < 0.15, +0.10 if 0.15 <= s < 0.30, 0 if
\* 0.30 <= s < 0.50, -0.15 if s >= 0.50.  (s < c  iff  20 s^2 < 20 c^2.)
C5_ConsistencyBands ==
    pc \in {"step3", "step4", "done"} =>
      \A r \in Unique(df) :
        /\ OrderedByMatchId(r)
        /\ \A k \in 1 .. Len(OrderOf(r)) :
             LET b == consistency_bonus[OrderOf(r)[k]]
                 v == Var20(pass1_rating, OrderOf(r), k)
             IN  IF k <= 4 THEN b = 0
                 ELSE /\ (v < 4500) => b = 2000
                      /\ (v >= 4500 /\ v < 18000) => b = 1000
                      /\ (v >= 18000 /\ v < 50000) => b = 0
                      /\ (v >= 50000) => b = -1500

\* C5 witness: a fifth event whose window has s = 0.15 exactly and, in a
\* frame not given in match order, gets +0.10
C5_Witness ==
    /\ pc = "done"
    /\ \E r \in Unique(df) :
         /\ Len(OrderOf(r)) >= 5
         /\ OrderOf(r)[5] # Len(df)
         /\ Var20(pass1_rating, OrderOf(r), 5) = 4500
         /\ consistency_bonus[OrderOf(r)[5]] = 1000

\* C6 as stated: form_5_games is null for a referee's first four events
\* and from the fifth on it is the mean of the five final ratings.
C6_FormIsExactMean ==
    pc = "done" =>
      \A r \in Unique(df) :
        \A k \in 1 .. Len(OrderOf(r)) :
          LET form == form_5_games[OrderOf(r)[k]]
          IN  IF k <= 4 THEN form = None
              ELSE /\ Len(form) = 1
                   /\ 5 * form[1] = Sum5(final_rating, OrderOf(r), k)

\* C6 amended: ... from the fifth on it is that mean rounded to two
\* decimals (the hundredth nearest to the mean).
C6_FormIsRoundedMean ==
    pc = "done" =>
      \A r \in Unique(df) :
        /\ OrderedByMatchId(r)
        /\ \A k \in 1 .. Len(OrderOf(r)) :
             LET form == form_5_games[OrderOf(r)[k]]
             IN  IF k <= 4 THEN form = None
                 ELSE /\ Len(form) = 1
                      /\ 5 * form[1] - Sum5(final_rating, OrderOf(r), k) <= 2
                      /\ Sum5(final_rating, OrderOf(r), k) - 5 * form[1] <= 2

\* C6 witness: a fifth event whose five ratings have a mean that is not a
\* whole number of hundredths
C6_Witness ==
    /\ pc = "done"
    /\ \E r \in Unique(df) :
         /\ Len(OrderOf(r)) >= 5
         /\ Sum5(final_rating, OrderOf(r), 5) % 5 = 3
         /\ form_5_games[OrderOf(r)[5]] # None

\* C8 as stated: the post-consistency rating is the pass-1 rating plus the
\* consistency adjustment, absorbed by no clamp and no floor.
C8_BonusOnTopOfPass1 ==
    pc \in {"step4", "done"} =>
      \A i \in DOMAIN df :
        final_rating[i] * 100 = pass1_rating[i] * 100 + consistency_bonus[i]

\* base rating + error penalty of row i, from the regime STEP 3 reports
RawRating(i) ==
    BaseRating(df[i], WEIGHTS(mode_col[i]))
    + df[i]["minor_errors"] * (-500)
    + df[i]["moderate_errors"] * (-1500)
    + df[i]["major_errors"] * (-4000)

\* C8 amended: the post-consistency rating is base rating + penalty +
\* adjustment, then floored at 6.5 for easy events, then clamped to [1,10]
\* (and rounded to two decimals): the adjustment is added before the floor
\* and the clamp, which absorb it where they bind.
C8_BonusBeforeFloorAndClamp ==
    pc \in {"step4", "done"} =>
      \A i \in DOMAIN df :
        LET sum == RawRating(i) + consistency_bonus[i]
            floored == IF mode_col[i] = "easy" /\ sum < 65000 THEN 65000 ELSE sum
            clamped == IF floored < 10000 THEN 10000
                       ELSE IF floored > 100000 THEN 100000 ELSE floored
        IN  /\ final_rating[i] * 100 - clamped <= 50
            /\ clamped - final_rating[i] * 100 <= 50

\* C8 witness: an easy event at the floor whose +0.20 left its rating at
\* 6.50, and a hard event whose +0.20 was cut by the upper bound
C8_Witness ==
    /\ pc = "done"
    /\ \E i \in DOMAIN df :
         /\ consistency_bonus[i] = 2000
         /\ \/ mode_col[i] = "easy" /\ pass1_rating[i] = 650 /\ final_rating[i] = 650
            \/ mode_col[i] = "hard" /\ pass1_rating[i] = 993 /\ final_rating[i] = 1000

\* the rows S by match_id, rows of equal match_id in their record order
StableOrder(d, S) ==
    CHOOSE o \in SortedOrders(d, S) :
      \A k \in 1 .. Len(o) - 1 :
        d[o[k]]["match_id"] = d[o[k + 1]]["match_id"] => o[k] < o[k + 1]

\* C10: the windows run over each referee's events by ascending match_id
\* whatever the row order, events sharing a match_id keeping their record
\* order; so the adjustments and form values are those of that order.
C10_StableTieBreak ==
    pc = "done" =>
      LET stable == [r \in Unique(df) |-> StableOrder(df, RefRows(df, r))]
      IN  /\ consistency_bonus = compute_consistency_bonus(df, pass1_rating, stable)
          /\ form_5_games = compute_form(df, final_rating, stable)

===========================================================================
